---- MODULE Spec2Model ----
(***************************************************************************)
(* A model of grepr (src/src/lib.rs): get_args, run, open, find_lines and  *)
(* find_files.  Text is modelled as a sequence of bytes; a byte is a       *)
(* one-character string, and the fixed fragments of a format string are    *)
(* kept as one element each.                                               *)
(***************************************************************************)
EXTENDS Integers, Sequences, FiniteSets

VARIABLES
    argv,       \* the parsed command line (struct Args)
    fsOrder,    \* the order in which the filesystem lists a directory
    pc,         \* position of the process: main, run, loop, done, failed
    config,     \* the Config get_args built, or NoConfig
    entries,    \* run: the Vec<Result<String>> returned by find_files
    num_files,  \* run: entries.len()
    idx,        \* run: position of the for loop in entries
    handled,    \* history: one record per loop iteration, in order
    stdout,     \* the standard output, one record per print! call
    stderr,     \* the error channel, one record per eprintln! call
    ret,        \* the value returned to main by get_args / run
    file,       \* test_find_lines: the text given to find_lines
    regex,      \* test_find_lines: the compiled pattern
    found       \* test_find_lines: the result of find_lines per invert flag

vars == <<argv, fsOrder, pc, config, entries, num_files, idx, handled,
          stdout, stderr, ret, file, regex, found>>

progVars == <<argv, fsOrder, pc, config, entries, num_files, idx, handled,
              stdout, stderr, ret>>

testVars == <<file, regex, found>>

----------------------------------------------------------------------------
(* Bounds of the model. *)

\* longest list of FILE arguments
MaxPaths == 2

\* longest text handed to find_lines in the find_lines specification
MaxLen == 5

----------------------------------------------------------------------------
(* Text helpers. *)

LF == "\n"
CR == "\r"
\* a byte that is not valid UTF-8: read_line fails on a line holding it
BAD == "BAD"

Ok(v) == [tag |-> "Ok", val |-> v]
Err(v) == [tag |-> "Err", val |-> v]

RECURSIVE Flatten(_)
Flatten(ss) == IF ss = <<>> THEN <<>> ELSE Head(ss) \o Flatten(Tail(ss))

Reverse(s) == [i \in 1..Len(s) |-> s[Len(s) + 1 - i]]

\* t occurs in s as a contiguous run
Contains(s, t) ==
    \E i \in 1..(Len(s) - Len(t) + 1) : SubSeq(s, i, i + Len(t) - 1) = t

StartsWith(s, t) == Len(s) >= Len(t) /\ SubSeq(s, 1, Len(t)) = t

Digit(d) == CASE d = 0 -> "0" [] d = 1 -> "1" [] d = 2 -> "2" [] d = 3 -> "3"
              [] d = 4 -> "4" [] d = 5 -> "5" [] d = 6 -> "6" [] d = 7 -> "7"
              [] d = 8 -> "8" [] d = 9 -> "9"

\* format!("{}", n) of a usize
RECURSIVE to_string(_)
to_string(n) == IF n < 10 THEN <<Digit(n)>>
               ELSE to_string(n \div 10) \o <<Digit(n % 10)>>

----------------------------------------------------------------------------
(* The pattern: RegexBuilder::new(pattern).case_insensitive(i).build(). *)

\* the pattern strings of the model: two literals and two with an
\* unbalanced parenthesis
Patterns == { <<"o", "r">>, <<"r">>, <<"(">>, <<"o", "r", ")">> }

RECURSIVE Depth(_, _)
\* nesting depth after reading p, or -1 once a ")" closes nothing
Depth(p, d) ==
    IF d < 0 THEN -1
    ELSE IF p = <<>> THEN d
    ELSE Depth(Tail(p), IF Head(p) = "(" THEN d + 1
                         ELSE IF Head(p) = ")" THEN d - 1 ELSE d)

RegexBuild(pattern, insensitive) ==
    IF Depth(pattern, 0) = 0
    THEN Ok([lit |-> pattern, ci |-> insensitive])
    ELSE Err(<<"regex parse error">>)

Fold(c) == CASE c = "O" -> "o" [] c = "R" -> "r" [] c = "X" -> "x" [] OTHER -> c

FoldAll(s) == [i \in 1..Len(s) |-> Fold(s[i])]

\* Regex::is_match for a literal pattern: the literal occurs in the text
is_match(re, text) ==
    IF re.ci THEN Contains(FoldAll(text), FoldAll(re.lit))
    ELSE Contains(text, re.lit)

----------------------------------------------------------------------------
(* find_lines (lines 98-108). *)

ReadError == <<"stream did not contain valid UTF-8">>

\* length of the first line of f: up to and including the first LF, or all
\* of f when it holds none
RECURSIVE LineLen(_)
LineLen(f) == IF f = <<>> THEN 0
              ELSE IF Head(f) = LF THEN 1
              ELSE 1 + LineLen(Tail(f))

\* BufRead::read_line(&mut buf): appends the next line, terminator included,
\* to buf and returns the number of bytes read; 0 at the end of the stream;
\* an error, with buf untouched, when the line is not valid UTF-8
read_line(f, buf) ==
    LET n == LineLen(f)
        line == SubSeq(f, 1, n)
    IN  IF \E i \in 1..n : line[i] = BAD
        THEN [tag |-> "Err", val |-> ReadError, buf |-> buf,
              rest |-> SubSeq(f, n + 1, Len(f))]
        ELSE [tag |-> "Ok", val |-> n, buf |-> buf \o line,
              rest |-> SubSeq(f, n + 1, Len(f))]

\* mem::take(&mut buf): the value moved out, and what is left behind
take(buf) == [value |-> buf, left |-> <<>>]

\* a loop that forgets buf.clear(): a line that was not selected stays in buf
clear_forgotten(buf) == buf

\* buf.clear()
clear(buf) == <<>>

\* a read error that hands back what was collected before it
read_failed_partial(err, matches) == Ok(matches)

\* the ? of line 101: an error of read_line leaves find_lines at once, and
\* the matches collected so far are dropped with the frame
read_failed(err, matches) == Err(err)

\* a loop body that selects on `is_match || invert_match`
loop_body_or(buf, matches, pattern, invert_match) ==
    IF is_match(pattern, buf) \/ invert_match
    THEN [matches |-> Append(matches, take(buf).value),
          buf |-> clear(take(buf).left)]
    ELSE [matches |-> matches, buf |-> clear(buf)]

\* the body of the while loop for one line already read into buf:
\* the matches and the buf the next iteration starts with
loop_body(buf, matches, pattern, invert_match) ==
    IF is_match(pattern, buf) # invert_match
    THEN [matches |-> Append(matches, take(buf).value),
          buf |-> clear(take(buf).left)]
    ELSE [matches |-> matches, buf |-> clear(buf)]

RECURSIVE find_lines_from(_, _, _, _, _)
find_lines_from(f, buf, matches, pattern, invert_match) ==
    LET r == read_line(f, buf)
    IN  IF r.tag = "Err" THEN read_failed(r.val, matches)
        ELSE IF r.val > 0
        THEN LET b == loop_body(r.buf, matches, pattern, invert_match)
             IN  find_lines_from(r.rest, b.buf, b.matches, pattern, invert_match)
        ELSE Ok(matches)

find_lines(f, pattern, invert_match) ==
    find_lines_from(f, <<>>, <<>>, pattern, invert_match)

----------------------------------------------------------------------------
(* The filesystem the program runs against: the answers of fs::metadata,   *)
(* File::open, io::stdin and WalkDir.                                      *)

Stdin == <<"-">>
\* a regular file
PathF == <<"f">>
\* a regular file holding a line that is not valid UTF-8
PathG == <<"g">>
\* a regular file the process may not open
PathN == <<"n">>
\* a name that does not exist
PathM == <<"m">>
\* a named pipe: neither a directory nor a regular file
PathT == <<"t">>
\* a directory with files, a subdirectory, a symlink and an unreadable
\* subdirectory
PathD == <<"d">>
\* an empty directory
PathE == <<"e">>

Paths == {Stdin, PathF, PathG, PathN, PathM, PathT, PathD, PathE}

\* Path::join followed by display()
Join(dir, name) == dir \o <<"/">> \o name

DF == Join(PathD, <<"f">>)
DS == Join(PathD, <<"s">>)
DL == Join(PathD, <<"l">>)
DU == Join(PathD, <<"u">>)
DSF == Join(DS, <<"f">>)
DUF == Join(DU, <<"f">>)

NotFound == <<"No such file or directory (os error 2)">>
Denied == <<"Permission denied (os error 13)">>

FileType(p) ==
    CASE p \in {PathF, PathG, PathN, DF, DSF, DUF} -> "file"
      [] p \in {PathD, PathE, DS, DU} -> "dir"
      [] p = DL -> "symlink"
      [] p = PathT -> "fifo"
      [] OTHER -> "none"

\* the names a directory holds, in one of the orders the filesystem may
\* list them in
Children(p) ==
    CASE p = PathD -> <<DF, DS, DL, DU>>
      [] p = DS -> <<DSF>>
      [] p = DU -> <<DUF>>
      [] OTHER -> <<>>

\* directories whose listing fails
Unreadable == {DU}

ListDir(p) == IF fsOrder = "rev" THEN Reverse(Children(p)) ELSE Children(p)

\* fs::metadata(path)
metadata(p) == IF FileType(p) = "none" THEN Err(NotFound) ELSE Ok(FileType(p))

Content(p) ==
    CASE p = Stdin -> <<"x", "o", "r", LF, "x", "x", CR, LF, "O", "R">>
      [] p = PathF -> <<"o", "r", LF, "x", LF>>
      [] p = PathG -> <<"o", "r", LF, "x", LF, "o", "r", LF, BAD, LF, "x">>
      [] p = DF -> <<"x", LF, "o", "r">>
      [] OTHER -> <<>>

\* open (lines 91-96): the stream behind a file name, or the error of
\* File::open
open(filename) ==
    IF filename = Stdin THEN Ok(Content(Stdin))
    ELSE IF FileType(filename) = "none" THEN Err(NotFound)
    ELSE IF filename = PathN THEN Err(Denied)
    ELSE Ok(Content(filename))

\* WalkDir::new(p).into_iter(): the entry itself, then, for a directory, the
\* walks of what it holds; an unreadable directory yields one error instead
RECURSIVE WalkDir(_)
WalkDir(p) ==
    <<Ok([path |-> p, file_type |-> FileType(p)])>> \o
    (IF FileType(p) # "dir" THEN <<>>
     ELSE IF p \in Unreadable THEN <<Err(p \o <<": ">> \o Denied)>>
     ELSE LET ch == ListDir(p)
          IN  Flatten([i \in 1..Len(ch) |-> WalkDir(ch[i])]))

----------------------------------------------------------------------------
(* find_files (lines 110-138). *)

\* results.insert(0, e)
push_front(results, e) == <<e>> \o results

\* results.push(e)
push(results, e) == Append(results, e)

\* Iterator::flatten over the walk: the Ok items, the errors dropped
flatten(walk) ==
    LET oks == SelectSeq(walk, LAMBDA r : r.tag = "Ok")
    IN  [i \in 1..Len(oks) |-> oks[i].val]

\* a walk without the is_file filter
filter_nothing(dirents) == dirents

\* .filter(|entry| entry.file_type().is_file())
filter_files(dirents) == SelectSeq(dirents, LAMBDA e : e.file_type = "file")

\* .for_each(|entry| results.push(Ok(entry.path().display().to_string())))
RECURSIVE for_each_push(_, _)
for_each_push(results, dirents) ==
    IF dirents = <<>> THEN results
    ELSE for_each_push(push(results, Ok(Head(dirents).path)), Tail(dirents))

\* a loop body that drops the path when fs::metadata fails
find_files_path_silent(results, path, recursive) ==
    IF path = Stdin THEN push(results, Ok(path))
    ELSE LET md == metadata(path)
         IN  IF md.tag = "Err"
             THEN results
             ELSE IF md.val = "dir"
             THEN IF recursive
                  THEN for_each_push(results, filter_files(flatten(WalkDir(path))))
                  ELSE push(results, Err(path \o <<" is a directory">>))
             ELSE IF md.val = "file"
             THEN push(results, Ok(path))
             ELSE results

\* the body of the for loop of find_files for one path
find_files_path(results, path, recursive) ==
    IF path = Stdin THEN push(results, Ok(path))
    ELSE LET md == metadata(path)
         IN  IF md.tag = "Err"
             THEN push(results, Err(path \o <<": ">> \o md.val))
             ELSE IF md.val = "dir"
             THEN IF recursive
                  THEN for_each_push(results, filter_files(flatten(WalkDir(path))))
                  ELSE push(results, Err(path \o <<" is a directory">>))
             ELSE IF md.val = "file"
             THEN push(results, Ok(path))
             ELSE results

RECURSIVE find_files_from(_, _, _)
find_files_from(results, paths, recursive) ==
    IF paths = <<>> THEN results
    ELSE find_files_from(find_files_path(results, Head(paths), recursive),
                         Tail(paths), recursive)

find_files(paths, recursive) == find_files_from(<<>>, paths, recursive)

----------------------------------------------------------------------------
(* get_args (lines 42-56) and run (lines 58-89). *)

NoConfig == [tag |-> "None"]
NotCalled == [tag |-> "NotCalled"]

\* the sequences over S of length lo..hi
SeqsOf(S, lo, hi) == UNION {[1..n -> S] : n \in lo..hi}

\* what Args::parse() can return: files is never empty, its default is "-"
ArgsSet ==
    [pattern : Patterns, files : SeqsOf(Paths, 1, MaxPaths),
     insensitive : BOOLEAN, recursive : BOOLEAN, count : BOOLEAN,
     invert_match : BOOLEAN]

\* a get_args that does not propagate the error of build()
get_args_unchecked(args) ==
    Ok([pattern |-> [lit |-> args.pattern, ci |-> args.insensitive],
        files |-> args.files, recursive |-> args.recursive,
        count |-> args.count, invert_match |-> args.invert_match])

get_args(args) ==
    LET built == RegexBuild(args.pattern, args.insensitive)
    IN  IF built.tag = "Err"
        THEN Err(<<"Invalid pattern \"">> \o args.pattern \o <<"\"">>)
        ELSE Ok([pattern |-> built.val, files |-> args.files,
                 recursive |-> args.recursive, count |-> args.count,
                 invert_match |-> args.invert_match])

\* the print closure of run (lines 61-67)
print(n, filename, value) ==
    IF n > 1 THEN filename \o <<":">> \o value ELSE value

\* eprintln!: the message and a line feed
eprintln(msg) == msg \o <<LF>>

\* lines 76-82: what the Ok(matches) arm writes to the standard output
print_matches(n, count, filename, matches) ==
    IF count
    THEN <<print(n, filename, to_string(Len(matches)) \o <<LF>>)>>
    ELSE [i \in 1..Len(matches) |-> print(n, filename, matches[i])]

\* one iteration of the for loop of run (lines 68-87) for entry e: what it
\* writes, and how far it got
run_entry(e, n, cfg) ==
    IF e.tag = "Err"
    THEN [out |-> <<>>, err |-> <<eprintln(e.val)>>,
          open |-> NotCalled, lines |-> NotCalled]
    ELSE LET filename == e.val
             opened == open(filename)
         IN  IF opened.tag = "Err"
             THEN [out |-> <<>>,
                   err |-> <<eprintln(filename \o <<": ">> \o opened.val)>>,
                   open |-> opened, lines |-> NotCalled]
             ELSE LET r == find_lines(opened.val, cfg.pattern, cfg.invert_match)
                  IN  IF r.tag = "Err"
                      THEN [out |-> <<>>, err |-> <<eprintln(r.val)>>,
                            open |-> opened, lines |-> r]
                      ELSE [out |-> print_matches(n, cfg.count, filename, r.val),
                            err |-> <<>>, open |-> opened, lines |-> r]

\* a loop that stops at the first entry that reported an error
next_index_abort(i, step) == IF step.err # <<>> THEN Len(entries) + 1 ELSE i + 1

\* what the loop does after an iteration: a for loop goes on to the next
\* entry whatever the arm taken
next_index(i, step) == i + 1

Tagged(texts, i) == [k \in 1..Len(texts) |-> [src |-> i, text |-> texts[k]]]

Init ==
    /\ argv \in ArgsSet
    /\ fsOrder \in {"fwd", "rev"}
    /\ pc = "main"
    /\ config = NoConfig
    /\ entries = <<>>
    /\ num_files = 0
    /\ idx = 0
    /\ handled = <<>>
    /\ stdout = <<>>
    /\ stderr = <<>>
    /\ ret = NotCalled
    /\ file = <<>>
    /\ regex = NoConfig
    /\ found = [b \in BOOLEAN |-> NotCalled]

\* main calls get_args; run can only be given the Config of an Ok
GetArgs ==
    /\ pc = "main"
    /\ LET r == get_args(argv)
       IN  /\ ret' = r
           /\ IF r.tag = "Ok"
              THEN config' = r.val /\ pc' = "run"
              ELSE config' = config /\ pc' = "failed"
    /\ UNCHANGED <<argv, fsOrder, entries, num_files, idx, handled, stdout,
                   stderr, testVars>>

\* run, lines 59-60
RunFindFiles ==
    /\ pc = "run"
    /\ config # NoConfig
    /\ entries' = find_files(config.files, config.recursive)
    /\ num_files' = Len(entries')
    /\ idx' = 1
    /\ pc' = "loop"
    /\ ret' = NotCalled
    /\ UNCHANGED <<argv, fsOrder, config, handled, stdout, stderr, testVars>>

\* run, lines 68-87: one iteration of the for loop
RunEntry ==
    /\ pc = "loop"
    /\ idx <= Len(entries)
    /\ LET step == run_entry(entries[idx], num_files, config)
       IN  /\ stdout' = stdout \o Tagged(step.out, idx)
           /\ stderr' = stderr \o Tagged(step.err, idx)
           /\ handled' = Append(handled, [entry |-> entries[idx],
                                          open |-> step.open,
                                          lines |-> step.lines])
           /\ idx' = next_index(idx, step)
    /\ UNCHANGED <<argv, fsOrder, pc, config, entries, num_files, ret,
                   testVars>>

\* run, line 88
RunReturn ==
    /\ pc = "loop"
    /\ idx > Len(entries)
    /\ pc' = "done"
    /\ ret' = Ok(<<>>)
    /\ UNCHANGED <<argv, fsOrder, config, entries, num_files, idx, handled,
                   stdout, stderr, testVars>>

Next == GetArgs \/ RunFindFiles \/ RunEntry \/ RunReturn

Spec == Init /\ [][Next]_vars

----------------------------------------------------------------------------
(* find_lines on its own, called as test_find_lines calls it: once per     *)
(* value of invert_match on the same text and pattern.                     *)

Bytes == {"o", "r", "R", CR, LF, BAD}

Regexes == {RegexBuild(p, i).val : p \in {q \in Patterns : Depth(q, 0) = 0},
                                   i \in BOOLEAN}

InitLines ==
    /\ file \in SeqsOf(Bytes, 0, MaxLen)
    /\ regex \in Regexes
    /\ found = [b \in BOOLEAN |-> NotCalled]
    /\ argv = [pattern |-> regex.lit, files |-> <<Stdin>>,
               insensitive |-> regex.ci, recursive |-> FALSE,
               count |-> FALSE, invert_match |-> FALSE]
    /\ fsOrder = "fwd"
    /\ pc = "test"
    /\ config = NoConfig
    /\ entries = <<>>
    /\ num_files = 0
    /\ idx = 0
    /\ handled = <<>>
    /\ stdout = <<>>
    /\ stderr = <<>>
    /\ ret = NotCalled

CallFindLines(invert_match) ==
    /\ pc = "test"
    /\ found[invert_match] = NotCalled
    /\ found' = [found EXCEPT ![invert_match] =
                    find_lines(file, regex, invert_match)]
    /\ UNCHANGED <<file, regex, progVars>>

NextLines == \E invert_match \in BOOLEAN : CallFindLines(invert_match)

SpecLines == InitLines /\ [][NextLines]_vars

----------------------------------------------------------------------------
(* Properties of find_lines. *)

\* the lines of a stream, each with its terminator
RECURSIVE LinesOf(_)
LinesOf(f) ==
    IF f = <<>> THEN <<>>
    ELSE <<SubSeq(f, 1, LineLen(f))>> \o LinesOf(SubSeq(f, LineLen(f) + 1, Len(f)))

\* the elements of L at the positions in S, in the order of L
Pick(L, S) ==
    LET F[i \in 0..Len(L)] ==
            IF i = 0 THEN <<>>
            ELSE IF i \in S THEN Append(F[i - 1], L[i]) ELSE F[i - 1]
    IN  F[Len(L)]

BothCalled == pc = "test" /\ found[FALSE].tag = "Ok" /\ found[TRUE].tag = "Ok"

\* C1: on a readable stream, the lines found without and with invert_match
\* split the occurrences of the stream's lines in two: some set S of line
\* positions gives the first result and its complement gives the second,
\* each in stream order.
C1_Partition ==
    BothCalled =>
        LET L == LinesOf(file)
        IN  \E S \in SUBSET (1..Len(L)) :
                /\ found[FALSE].val = Pick(L, S)
                /\ found[TRUE].val = Pick(L, (1..Len(L)) \ S)

C1_Witness ==
    /\ BothCalled
    /\ Len(found[FALSE].val) >= 1
    /\ Len(found[TRUE].val) >= 1
    /\ Len(LinesOf(file)) >= 3

\* C9: on a stream read without error, find_lines returns exactly the lines
\* whose match status differs from invert_match, each as it stands in the
\* stream with its terminator, in stream order.
C9_ExactLines ==
    \A b \in BOOLEAN :
        (pc = "test" /\ found[b].tag = "Ok") =>
            found[b].val =
                SelectSeq(LinesOf(file), LAMBDA l : is_match(regex, l) # b)

\* a CR LF line is returned after a line that was not selected
C9_Witness ==
    /\ pc = "test"
    /\ found[FALSE].tag = "Ok"
    /\ regex.lit = <<"r">>
    /\ LinesOf(file) = << <<"o", LF>>, <<"r", CR, LF>> >>
    /\ found[FALSE].val = << <<"r", CR, LF>> >>

----------------------------------------------------------------------------
(* Properties of get_args, run and find_files. *)

Resolved == pc \in {"loop", "done"}

IsDirectory(p) == p # Stdin /\ FileType(p) = "dir"

\* a path that exists and is neither a directory nor a regular file
IsOtherType(p) == p # Stdin /\ FileType(p) \notin {"dir", "file", "none"}

Count(S) == Cardinality(S)

\* the file targets in play: the entries that name a stream to open
Targets == {k \in 1..Len(entries) : entries[k].tag = "Ok"}

Prefixed(rec) == StartsWith(rec.text, entries[rec.src].val \o <<":">>)

\* C2: everything run prints carries `<filename>:` when more than one file
\* target is in play and no prefix when exactly one is, error entries
\* among the resolved entries or not.
C2_PrefixByTargets ==
    \A k \in 1..Len(stdout) :
        /\ Count(Targets) > 1 => Prefixed(stdout[k])
        /\ Count(Targets) = 1 => ~Prefixed(stdout[k])

Causes == {NotFound, Denied, ReadError, <<" is a directory">>}

\* the path an iteration of run was working on when it reported an error:
\* the file name of an Ok entry, an argument of the command line otherwise
OffendingPaths(rec) ==
    IF entries[rec.src].tag = "Ok" THEN {entries[rec.src].val}
    ELSE {config.files[i] : i \in 1..Len(config.files)}

\* C3: every message run writes to the error channel for a path embeds that
\* path and the underlying cause.
C3_ErrorsNamePath ==
    \A k \in 1..Len(stderr) :
        /\ \E p \in OffendingPaths(stderr[k]) : Contains(stderr[k].text, p)
        /\ \E c \in Causes : Contains(stderr[k].text, c)

Failed(h) == h.entry.tag = "Err" \/ h.open.tag = "Err" \/ h.lines.tag = "Err"

\* C4: the loop of run handles the entries one by one in the order of the
\* list, whatever fails; an Ok entry is opened, an opened stream is matched,
\* and run returns Ok only after the last entry.
C4_ErrorsDoNotStop ==
    /\ Resolved =>
        /\ Len(handled) = idx - 1
        /\ idx <= Len(entries) + 1
        /\ \A i \in 1..Len(handled) :
            /\ handled[i].entry = entries[i]
            /\ handled[i].entry.tag = "Ok" => handled[i].open # NotCalled
            /\ handled[i].open.tag = "Ok" => handled[i].lines # NotCalled
    /\ pc = "done" => Len(handled) = Len(entries) /\ ret = Ok(<<>>)

\* run has returned, and a stream was matched after each kind of failure
C4_Witness ==
    /\ pc = "done"
    /\ \E i, j \in 1..Len(handled) :
        /\ i < j
        /\ Failed(handled[i])
        /\ handled[j].lines.tag = "Ok"
        /\ \E k \in 1..Len(stdout) : stdout[k].src = j

HasBadLine(f) == \E i \in 1..Len(f) : f[i] = BAD

\* C5: for a stream whose reading fails, find_lines returns the error alone
\* and run prints nothing to the standard output, in count mode or not.
C5_NoPartialOutput ==
    \A i \in 1..Len(handled) :
        (handled[i].open.tag = "Ok" /\ HasBadLine(handled[i].open.val)) =>
            /\ handled[i].lines = Err(ReadError)
            /\ \A k \in 1..Len(stdout) : stdout[k].src # i
            /\ \E k \in 1..Len(stderr) : stderr[k].src = i

\* the failing stream had matching lines before the failure
C5_Witness ==
    /\ config # NoConfig
    /\ config.count
    /\ ~config.invert_match
    /\ \E i \in 1..Len(handled) :
        /\ handled[i].entry = Ok(PathG)
        /\ handled[i].lines.tag = "Err"
        /\ is_match(config.pattern, <<"o", "r", LF>>)

NoDirectories ==
    \A i \in 1..Len(config.files) : ~IsDirectory(config.files[i])

\* C6 as stated: a list of non-directory paths resolves to one entry per
\* path, whatever the recursive flag.
C6_OnePerNonDirectory ==
    (Resolved /\ NoDirectories) => Len(entries) = Len(config.files)

\* C6, amended: a list of non-directory paths resolves, whatever the
\* recursive flag, to one entry per path that is the stdin sentinel, a
\* regular file or a path whose metadata query fails, and to no entry for a
\* path of any other file type.
C6_OnePerNonDirectoryButOther ==
    (Resolved /\ NoDirectories) =>
        Len(entries) =
            Count({i \in 1..Len(config.files) : ~IsOtherType(config.files[i])})

C6_Witness ==
    /\ Resolved
    /\ NoDirectories
    /\ config.recursive
    /\ \E i, j \in 1..Len(config.files) :
        IsOtherType(config.files[i]) /\ config.files[j] = PathM
    /\ Len(entries) = 1

OnlyDirectories ==
    \A i \in 1..Len(config.files) : IsDirectory(config.files[i])

Nodes == {PathD, PathE, DF, DS, DL, DU, DSF, DUF}

Under(q, dir) == StartsWith(q, dir \o <<"/">>)

\* the regular files a walk from root finds: those under root with no
\* unreadable directory above them
FilesFound(root) ==
    {q \in Nodes : /\ FileType(q) = "file"
                   /\ Under(q, root)
                   /\ \A u \in Unreadable : ~Under(q, u)}

\* C7: a list of directories resolves, without recursion, to the error
\* `<path> is a directory` for each of them; with recursion, to Ok entries
\* only, one per regular file the walk of each directory finds.
C7_Directories ==
    (Resolved /\ OnlyDirectories) =>
        IF ~config.recursive
        THEN entries = [i \in 1..Len(config.files) |->
                            Err(config.files[i] \o <<" is a directory">>)]
        ELSE /\ \A k \in 1..Len(entries) : entries[k].tag = "Ok"
             /\ \A q \in Nodes :
                    Count({k \in 1..Len(entries) : entries[k] = Ok(q)}) =
                    Count({i \in 1..Len(config.files) :
                              q \in FilesFound(config.files[i])})
             /\ \A k \in 1..Len(entries) : entries[k].val \in Nodes

\* a recursive walk of the tree that holds an unreadable directory
C7_Witness ==
    /\ Resolved
    /\ OnlyDirectories
    /\ config.recursive
    /\ \E i \in 1..Len(config.files) : config.files[i] = PathD
    /\ Len(entries) >= 2

InvalidPattern == RegexBuild(argv.pattern, argv.insensitive).tag = "Err"

\* C8: with a pattern that does not compile, get_args returns an error and
\* nothing else happens: no Config, no find_files, no stream opened, no
\* output.
C8_BadPatternFirst ==
    InvalidPattern =>
        /\ pc \in {"main", "failed"}
        /\ config = NoConfig
        /\ entries = <<>> /\ handled = <<>> /\ stdout = <<>> /\ stderr = <<>>
        /\ pc = "failed" => ret.tag = "Err"

C8_Witness == InvalidPattern /\ pc = "failed" /\ Len(argv.files) = 2

\* C10: the entries are those of the first path, then those of the second,
\* and so on, and run handles them in that order.
C10_InputOrder ==
    Resolved =>
        /\ entries =
            Flatten([i \in 1..Len(config.files) |->
                        find_files(<<config.files[i]>>, config.recursive)])
        /\ \A k \in 1..Len(handled) : handled[k].entry = entries[k]
        /\ \A k, l \in 1..Len(stdout) : k < l => stdout[k].src <= stdout[l].src
        /\ \A k, l \in 1..Len(stderr) : k < l => stderr[k].src <= stderr[l].src

\* a walk that yields several entries, followed by a second path
C10_Witness ==
    /\ pc = "done"
    /\ config.recursive
    /\ config.files = <<PathD, PathF>>
    /\ Len(entries) = 3
    /\ entries[3] = Ok(PathF)
    /\ Len(handled) = 3

====
